---- MODULE Spec2Model ----
(***************************************************************************)
(* Locator cache and action resolution engine of                           *)
(* Working-AI-Powered_Automation.py: the LocatorRepository (object         *)
(* repository persisted as one JSON file) and the DirectLLMAutomationAgent *)
(* that resolves an instruction cache-first, asks the LLM on a miss,       *)
(* stores the discovered locator and executes the action on the page.      *)
(*                                                                         *)
(* Python strings that the code splits, strips, lower-cases or searches    *)
(* are sequences of one-character strings.  A Python dict whose iteration  *)
(* order the code depends on is an association list: a sequence of         *)
(* <<key, value>> pairs with distinct keys, in insertion order.  A locator *)
(* record (the innermost dict) is a TLA+ record: its DOMAIN is the set of  *)
(* keys the dict has.                                                      *)
(***************************************************************************)
EXTENDS Integers, Sequences, FiniteSets, TLC

(***************************************************************************)
(* Bounds of the model.                                                    *)
(***************************************************************************)
\* calls made on the repository and the agent in a behaviour
MaxCalls == 2
\* fields of the longest action line given to _execute_action
MaxFields == 4

(***************************************************************************)
(* Python str operations.                                                  *)
(***************************************************************************)
Upper == <<"A", "B", "C", "F", "H", "I", "K", "L", "N", "P", "S", "U", "V">>
Lowered == <<"a", "b", "c", "f", "h", "i", "k", "l", "n", "p", "s", "u", "v">>

\* str.lower() on one character
LowerCh(c) ==
  IF \E i \in DOMAIN Upper : Upper[i] = c
    THEN Lowered[CHOOSE i \in DOMAIN Upper : Upper[i] = c]
    ELSE c

\* str.lower()
Lower(s) == [i \in 1..Len(s) |-> LowerCh(s[i])]

\* characters str.strip() removes
IsSpace(c) == c \in {" ", "\n", "\t"}

RECURSIVE LStrip(_)
LStrip(s) == IF s # <<>> /\ IsSpace(Head(s)) THEN LStrip(Tail(s)) ELSE s

RECURSIVE RStrip(_)
RStrip(s) ==
  IF s # <<>> /\ IsSpace(s[Len(s)]) THEN RStrip(SubSeq(s, 1, Len(s) - 1)) ELSE s

\* str.strip()
Strip(s) == RStrip(LStrip(s))

\* str.split(sep) for a one-character separator: always at least one field
RECURSIVE Split(_, _)
Split(s, sep) ==
  IF \A i \in DOMAIN s : s[i] # sep
    THEN <<s>>
    ELSE LET i == CHOOSE k \in DOMAIN s :
                    s[k] = sep /\ \A j \in 1..(k - 1) : s[j] # sep
         IN  <<SubSeq(s, 1, i - 1)>> \o Split(SubSeq(s, i + 1, Len(s)), sep)

\* the Python expression  sub in s  for two strings
Contains(sub, s) ==
  \E i \in 0..(Len(s) - Len(sub)) : SubSeq(s, i + 1, i + Len(sub)) = sub

\* concatenation of the pieces of an f-string
RECURSIVE Concat(_)
Concat(parts) == IF parts = <<>> THEN <<>> ELSE Head(parts) \o Concat(Tail(parts))

\* [p.strip() for p in s.split("|")]
SplitFields(s) == LET raw == Split(s, "|") IN [i \in DOMAIN raw |-> Strip(raw[i])]

\* re.search(r"'([^']*)'", s): the text between the first quote and the next
\* one, NoMatch when s has fewer than two quotes
NoMatch == <<"<no match>">>
QuotedGroup(s) ==
  LET quotes == {i \in DOMAIN s : s[i] = "'"} IN
  IF Cardinality(quotes) < 2
    THEN NoMatch
    ELSE LET i == CHOOSE k \in quotes : \A q \in quotes : k <= q
             j == CHOOSE k \in quotes : k > i /\ \A q \in quotes : q > i => k <= q
         IN  <<SubSeq(s, i + 1, j - 1)>>

(***************************************************************************)
(* Python dict operations on association lists and on records.             *)
(***************************************************************************)
EmptyDict == <<>>

Keys(d) == {d[i][1] : i \in DOMAIN d}

\* k in d
Has(d, k) == k \in Keys(d)

\* d[k]
Lookup(d, k) == d[CHOOSE i \in DOMAIN d : d[i][1] = k][2]

\* d[k] = v : an existing key keeps its position, a new key goes last
DictSet(d, k, v) ==
  IF Has(d, k)
    THEN [i \in DOMAIN d |-> IF d[i][1] = k THEN <<k, v>> ELSE d[i]]
    ELSE Append(d, <<k, v>>)

\* rec.get(key, default) on a record
RecGet(rec, key, default) == IF key \in DOMAIN rec THEN rec[key] ELSE default

\* rec[key] = v on a record
RecSet(rec, key, v) ==
  [k \in (DOMAIN rec) \cup {key} |-> IF k = key THEN v ELSE rec[k]]

(***************************************************************************)
(* Values of the model.                                                    *)
(***************************************************************************)
LoginPage == "LoginPage"
CartPage == "CartPage"
Pages == {LoginPage, CartPage}

\* object names
UsernameField == <<"U", "s", "e", "r">>
LoginButton == <<"B", "t", "n">>
Objects == {UsernameField, LoginButton}

\* the other two object names of main()
PasswordField == <<"P", "w", "d">>
ProductsHeading == <<"H", "d", "g">>
ObjectNames == Objects \cup {PasswordField, ProductsHeading}

\* selectors
SelUser == <<"#", "u">>
SelBtn == <<"#", "b">>

\* action kinds
fill == <<"f", "i", "l", "l">>
click == <<"c", "l", "i", "c", "k">>
wait_for == <<"w", "a", "i", "t", "_", "f", "o", "r">>
clear == <<"c", "l", "e", "a", "r">>
verify == <<"v", "e", "r", "i", "f", "y">>
tap == <<"t", "a", "p">>
check_visible == <<"c", "h", "e", "c", "k", "_", "v", "i", "s", "i", "b", "l", "e">>

DescUser == <<"F", "i", "l", "l", " ", "u">>
DescBtn == <<"b", "t", "n">>

\* the (locator, object_type, description) arguments add_locator is called with
PutArgs == { <<SelUser, fill, DescUser>>, <<SelBtn, tap, <<>>>> }

(***************************************************************************)
(* Python objects json.load can return for the repository file.            *)
(***************************************************************************)
Dict(items) == [type |-> "dict", items |-> items]
JsonArray == [type |-> "list", items |-> <<>>]
JsonNumber == [type |-> "int", items |-> <<>>]

\* return values and raised exceptions of a call; str(e) of an exception is
\* a one-piece text
None == [t |-> "None"]
Ret(kind, v) == [t |-> kind, v |-> v]
Raise(exc) == [t |-> "raise", v |-> <<exc>>]

\* one call made while an operation runs, in the order the calls are made
Event(ev, args, ret) == [ev |-> ev, args |-> args, ret |-> ret]

(***************************************************************************)
(* State.                                                                  *)
(***************************************************************************)
VARIABLES
  calls,        \* number of calls made so far
  repository,   \* LocatorRepository.repository, the in-memory store
  file,         \* content of LocatorRepository.repo_file on disk
  now,          \* the instant the next datetime.now() returns
  lastOp,       \* the call made last: arguments, return value, calls it made
  history,      \* per (page, object): the last add_locator of this run and
                \* the get_locator hits since the run created the record
  unsaved,      \* a write of this run has failed and none succeeded since
  run           \* main(): where it is, the result of each task so far and the
                \* calls made to close the browser

vars == <<calls, repository, file, now, lastOp, history, unsaved, run>>

\* page_name in self.repository, for each type json.load can have returned;
\* the JSON array of the model has no element equal to a page name
InRepository(repo, page_name) ==
  CASE repo.type = "dict" -> Has(repo.items, page_name)
    [] repo.type = "list" -> FALSE

\* the (page, object) pairs that have a record
StoreKeys(repo) ==
  IF repo.type # "dict" THEN {}
  ELSE UNION {{<<repo.items[i][1], o>> : o \in Keys(repo.items[i][2])} :
                i \in DOMAIN repo.items}

\* the record of a pair that has one
Record(repo, k) == Lookup(Lookup(repo.items, k[1]), k[2])

\* rec.get("used_count", 0)
UsedCount(rec) == RecGet(rec, "used_count", 0)

(***************************************************************************)
(* LocatorRepository._load_repository and _save_repository.                *)
(***************************************************************************)
\* json.load: the document of a parseable file
JsonLoad(f) == f.doc

\* json.dump(obj, f, indent=2, default=str): keys are str, values are str
\* and int, so the text written parses back to the same document
JsonDump(obj) == [state |-> "json", doc |-> obj]

load_repository(f) ==
  CASE f.state = "absent" -> Dict(EmptyDict)
    [] f.state = "garbage" -> Dict(EmptyDict)
    [] f.state = "json" -> JsonLoad(f)

\* outcome of one write: it succeeds, open() fails and leaves the file as it
\* was, or open() has truncated the file and json.dump fails part-way
WriteOutcomes == {"ok", "open_fail", "partial"}

\* a write that is never made
save_repository_skipped(repo, f, w) == f

save_repository(repo, f, w) ==
  CASE w = "ok" -> JsonDump(repo)
    [] w = "open_fail" -> f
    [] w = "partial" -> [state |-> "garbage"]

\* a write whose exception reaches the caller
saved_or_raised(ret, w) == IF w = "ok" THEN ret ELSE Raise("OSError")

\* what the caller of _save_repository goes on to return: the except clause
\* swallows the exception of a failed write
swallowed(ret, w) == ret

Saved(w) == Event("save", [outcome |-> w], None)

(***************************************************************************)
(* LocatorRepository.add_locator, get_locator, get_locator_by_search.      *)
(* Each yields the new repository, file and clock, the return value and    *)
(* the calls made: the call itself and the write it makes.                 *)
(***************************************************************************)
Outcome(repo, f, t, ret, trace) ==
  [repository |-> repo, file |-> f, now |-> t, ret |-> ret, trace |-> trace]

TypeError == "TypeError"

\* every add_locator counted as a new object
is_new_or_updated(objs, object_name) == TRUE

\* is_new = object_name not in self.repository[page_name]
is_new(objs, object_name) == ~Has(objs, object_name)

\* a count that starts again with every add_locator
used_count_reset(objs, object_name) == 0

\* a count that add_locator raises on an update
used_count_bumped(objs, object_name) ==
  IF is_new(objs, object_name) THEN 0
  ELSE UsedCount(Lookup(objs, object_name)) + 1

\* the used_count of the record add_locator writes
used_count_kept(objs, object_name) ==
  IF is_new(objs, object_name) THEN 0 ELSE UsedCount(Lookup(objs, object_name))

\* a page that keeps only the object written last
only_record(objs, object_name, rec) == <<<<object_name, rec>>>>

\* self.repository[page_name][object_name] = {...}
with_record(objs, object_name, rec) == DictSet(objs, object_name, rec)

add_locator(repo, f, t, page_name, object_name, locator, object_type, description, w) ==
  LET args == [page |-> page_name, object |-> object_name, locator |-> locator,
               type |-> object_type, description |-> description]
  IN
  IF repo.type # "dict"
    THEN Outcome(repo, f, t, Raise(TypeError),
                 <<Event("add_locator", args, Raise(TypeError))>>)
    ELSE
      LET pages == IF ~Has(repo.items, page_name)
                     THEN DictSet(repo.items, page_name, EmptyDict)
                     ELSE repo.items
          objs == Lookup(pages, page_name)
          rec == [locator |-> locator,
                  type |-> object_type,
                  description |-> description,
                  discovered_at |-> t,
                  used_count |-> used_count_kept(objs, object_name)]
          new == Dict(DictSet(pages, page_name,
                              with_record(objs, object_name, rec)))
          ret == swallowed(Ret("bool", is_new(objs, object_name)), w)
      IN  Outcome(new, save_repository(new, f, w), t + 1, ret,
                  <<Event("add_locator", args, ret), Saved(w)>>)

\* a lookup that writes the file also when it finds nothing
not_found_saved(repo, f, t, args, w) ==
  Outcome(repo, save_repository(repo, f, w), t, None,
          <<Event("get_locator", args, None), Saved(w)>>)

\* get_locator when the object is not in the repository
not_found(repo, f, t, args, w) ==
  Outcome(repo, f, t, None, <<Event("get_locator", args, None)>>)

\* a lookup that leaves the count as it is
used_unchanged(old) == UsedCount(old)

\* locator_info.get("used_count", 0) + 1
used_again(old) == UsedCount(old) + 1

\* a lookup that also dates the discovery of the record again
used_and_rediscovered(rec, t) ==
  RecSet(RecSet(rec, "last_used_at", t), "discovered_at", t)

\* locator_info["last_used_at"] = datetime.now().isoformat()
used_at(rec, t) == RecSet(rec, "last_used_at", t)

get_locator(repo, f, t, page_name, object_name, w) ==
  LET args == [page |-> page_name, object |-> object_name] IN
  IF repo.type = "int"
    THEN Outcome(repo, f, t, Raise(TypeError),
                 <<Event("get_locator", args, Raise(TypeError))>>)
  ELSE IF InRepository(repo, page_name)
          /\ Has(Lookup(repo.items, page_name), object_name)
    THEN
      LET objs == Lookup(repo.items, page_name)
          old == Lookup(objs, object_name)
          locator_info ==
            used_at(RecSet(old, "used_count", used_again(old)), t)
          new == Dict(DictSet(repo.items, page_name,
                              DictSet(objs, object_name, locator_info)))
          ret == swallowed(Ret("dict", locator_info), w)
      IN  Outcome(new, save_repository(new, f, w), t + 1, ret,
                  <<Event("get_locator", args, ret), Saved(w)>>)
    ELSE not_found(repo, f, t, args, w)

\* whether the i-th object of the page matches the term
Matches(objs, search_term, i) ==
  \/ Contains(Lower(search_term), Lower(objs[i][1]))
  \/ Contains(Lower(search_term), Lower(RecGet(objs[i][2], "description", <<>>)))

\* a loop that keeps the last object that matches
last_hit(hits) == CHOOSE k \in hits : \A h \in hits : h <= k

\* the loop returns at the first object that matches
first_hit(hits) == CHOOSE k \in hits : \A h \in hits : k <= h

get_locator_by_search(repo, page_name, search_term) ==
  IF repo.type = "int"
    THEN Raise(TypeError)
  ELSE IF ~InRepository(repo, page_name)
    THEN None
  ELSE
    LET objs == Lookup(repo.items, page_name)
        hits == {i \in DOMAIN objs : Matches(objs, search_term, i)}
    IN  IF hits = {}
          THEN None
          ELSE LET i == first_hit(hits)
               IN  Ret("dict", RecSet(objs[i][2], "object_name", objs[i][1]))

(***************************************************************************)
(* DirectLLMAutomationAgent._execute_action.                               *)
(* A result text is the sequence of the pieces of its f-string: literal    *)
(* pieces are strings, interpolated pieces are character sequences.        *)
(* drv is what the page does when it is called: drv.fails tells whether    *)
(* the call raises and drv.visible is the answer of is_visible.            *)
(***************************************************************************)
DriverError == <<"d", "r", "v">>

Exec(ret, trace) == [ret |-> ret, trace |-> trace]

Text(pieces) == Ret("str", pieces)

Sleep(ms) == Event("asyncio.sleep", [ms |-> ms], None)

\* a try body with no except clause: the exception of the page gets out
Unguarded(drv, call, args, text, sleeps) ==
  IF drv.fails
    THEN Exec(Raise("Error"), <<Event(call, args, Raise("Error"))>>)
    ELSE Exec(Text(text), <<Event(call, args, None)>> \o sleeps)

\* the try body once the call on the page is known: the except clause turns
\* a raising call into the "Exec error" text
Guarded(drv, call, args, text, sleeps) ==
  IF drv.fails
    THEN Exec(Text(<<"Exec error: ", DriverError>>),
              <<Event(call, args, Raise("Error"))>>)
    ELSE Exec(Text(text), <<Event(call, args, None)>> \o sleeps)

\* parts[i] if len(parts) > i else "", for the i-th field counted from 1
Field(parts, i) == IF Len(parts) >= i THEN parts[i] ELSE <<>>

\* fields that keep the case of the action type
action_fields_raw(parts) ==
  [action_type |-> parts[1], selector |-> parts[2],
   value |-> Field(parts, 3), description |-> Field(parts, 4)]

\* action_type, selector, value and description of a line of two fields or more
action_fields(parts) ==
  [action_type |-> Lower(parts[1]), selector |-> parts[2],
   value |-> Field(parts, 3), description |-> Field(parts, 4)]

\* a line of one field that raises
invalid_action_raised(action_str) == Exec(Raise("IndexError"), <<>>)

\* the return for a line of fewer than two fields
invalid_action(action_str) == Exec(Text(<<"Invalid action: ", action_str>>), <<>>)

\* an unknown action type that raises
unknown_action_raised(action_type) == Exec(Raise("ValueError"), <<>>)

\* the else branch of the dispatch
unknown_action(action_type) == Exec(Text(<<"Unknown action: ", action_type>>), <<>>)

\* a visibility check under either name
is_verify_or_check_visible(action_type) == action_type \in {verify, check_visible}

\* elif action_type == "verify"
is_verify(action_type) == action_type = verify

\* a clear that fills in the value of the line
cleared_value_kept(value) == value

\* the value of await page.fill(selector, "")
cleared_value(value) == <<>>

execute_action(action_str, drv) ==
  LET parts == SplitFields(action_str) IN
  IF Len(parts) < 2
    THEN invalid_action(action_str)
    ELSE
      LET action_type == action_fields(parts).action_type
          selector == action_fields(parts).selector
          value == action_fields(parts).value
      IN
      CASE action_type = fill ->
             Guarded(drv, "page.fill", [selector |-> selector, value |-> value],
                     <<"Filled ", selector, " = '", value, "'">>, <<Sleep(500)>>)
        [] action_type = click ->
             Guarded(drv, "page.click", [selector |-> selector],
                     <<"Clicked ", selector>>, <<Sleep(1000)>>)
        [] action_type = wait_for ->
             Guarded(drv, "page.wait_for_selector",
                     [selector |-> selector, timeout |-> 5000],
                     <<"Element appeared: ", selector>>, <<>>)
        [] action_type = clear ->
             Guarded(drv, "page.fill",
                     [selector |-> selector, value |-> cleared_value(value)],
                     <<"Cleared ", selector>>, <<>>)
        [] is_verify(action_type) ->
             Guarded(drv, "page.is_visible", [selector |-> selector],
                     <<"", selector, ": ",
                       IF drv.visible THEN "visible" ELSE "NOT visible">>, <<>>)
        [] OTHER -> unknown_action(action_type)

(***************************************************************************)
(* DirectLLMAutomationAgent._execute_action of test_new.py, the agent that *)
(* has no repository.                                                      *)
(***************************************************************************)
\* the try body of test_new.py: its except clause returns another text
GuardedNew(drv, call, args, text, sleeps) ==
  IF drv.fails
    THEN Exec(Text(<<"Action execution error: ", DriverError>>),
              <<Event(call, args, Raise("Error"))>>)
    ELSE Exec(Text(text), <<Event(call, args, None)>> \o sleeps)

\* str(visible) of a bool
BoolText(b) == IF b THEN "True" ELSE "False"

execute_action_new(action_str, drv) ==
  LET parts == SplitFields(action_str) IN
  IF Len(parts) < 2
    THEN Exec(Text(<<"Error parsing action: ", action_str>>), <<>>)
    ELSE
      LET action_type == action_fields(parts).action_type
          selector == action_fields(parts).selector
          value == action_fields(parts).value
      IN
      CASE action_type = fill ->
             GuardedNew(drv, "page.fill", [selector |-> selector, value |-> value],
                        <<"Filled ", selector, " with '", value, "'">>,
                        <<Sleep(500)>>)
        [] action_type = click ->
             GuardedNew(drv, "page.click", [selector |-> selector],
                        <<"Clicked ", selector>>, <<Sleep(1000)>>)
        [] action_type = wait_for ->
             GuardedNew(drv, "page.wait_for_selector",
                        [selector |-> selector, timeout |-> 5000],
                        <<"Element ", selector, " appeared">>, <<>>)
        [] action_type = clear ->
             GuardedNew(drv, "page.fill", [selector |-> selector, value |-> <<>>],
                        <<"Cleared ", selector>>, <<>>)
        [] action_type = check_visible ->
             GuardedNew(drv, "page.is_visible", [selector |-> selector],
                        <<"Element ", selector, " visible: ", BoolText(drv.visible)>>,
                        <<>>)
        [] OTHER -> Exec(Text(<<"Unknown action: ", action_type>>), <<>>)

(***************************************************************************)
(* DirectLLMAutomationAgent.execute_task.                                  *)
(* object_name is None or Ret("str", name).  snapshot_ok tells whether     *)
(* page.url and page.content() return; oracle is what llm.invoke does:     *)
(* it raises or returns Ret("str", reply).                                 *)
(***************************************************************************)
\* self.page_name of the agent main() builds
page_name_of_agent == LoginPage

\* an empty name taken for a name
NotNone(x) == x.t = "str"

\* truth value of an Optional[str]
Truthy(x) == x.t = "str" /\ x.v # <<>>

\* the outcome of a task: what the store calls left, then what came after
Task(store, trace, ret) ==
  [repository |-> store.repository, file |-> store.file, now |-> store.now,
   ret |-> ret, trace |-> store.trace \o trace]

ErrorText(cause) == Text(<<"Error: ", cause>>)

\* a line rebuilt with the value before the selector
cached_action_value_first(cached_locator, instruction) ==
  LET action_type == RecGet(cached_locator, "type", click)
      selector == RecGet(cached_locator, "locator", <<"N", "o", "n", "e">>)
      match == QuotedGroup(instruction)
      value == IF action_type = fill /\ match # NoMatch THEN match[1] ELSE <<>>
      description == RecGet(cached_locator, "description", instruction)
  IN  Concat(<<action_type, <<" ", "|", " ">>, value, <<" ", "|", " ">>,
               selector, <<" ", "|", " ">>, description>>)

\* the fast path: the action line rebuilt from the cached record
cached_action(cached_locator, instruction) ==
  LET action_type == RecGet(cached_locator, "type", click)
      selector == RecGet(cached_locator, "locator", <<"N", "o", "n", "e">>)
      match == QuotedGroup(instruction)
      value == IF action_type = fill /\ match # NoMatch THEN match[1] ELSE <<>>
      description == RecGet(cached_locator, "description", instruction)
  IN  Concat(<<action_type, <<" ", "|", " ">>, selector, <<" ", "|", " ">>,
               value, <<" ", "|", " ">>, description>>)

PageContent(ret) == Event("page.content", <<>>, ret)
Invoke(ret) == Event("llm.invoke", <<>>, ret)

\* a type stored as the LLM wrote it
stored_type_raw(parts) == parts[1]

\* action_type = parts[0].lower(), the type that goes in the repository
stored_type(parts) == Lower(parts[1])

\* a description taken from the reply alone, as _execute_action reads it
stored_description_or_empty(parts, instruction) == Field(parts, 4)

\* description = parts[3] if len(parts) > 3 else instruction
stored_description(parts, instruction) ==
  IF Len(parts) > 3 THEN parts[4] ELSE instruction

\* a slow path that executes the action first and stores the record only
\* if the action has not failed
discover_execute_first(looked, instruction, object_name, reply, drv, w) ==
  LET llm_response == Strip(reply)
      parts == SplitFields(llm_response)
      asked == Task(looked, <<PageContent(None), Invoke(Ret("str", reply))>>, None)
      exec == execute_action(llm_response, drv)
      failed == exec.ret.v[1] \in {"Exec error: ", "Unknown action: ",
                                   "Invalid action: "}
      stored ==
        IF Len(parts) >= 2 /\ Truthy(object_name) /\ ~failed
          THEN add_locator(asked.repository, asked.file, asked.now,
                           page_name_of_agent, object_name.v,
                           parts[2], stored_type(parts),
                           stored_description(parts, instruction), w)
          ELSE Outcome(asked.repository, asked.file, asked.now, None, <<>>)
  IN  Task([stored EXCEPT !.trace = asked.trace \o exec.trace \o stored.trace],
           <<>>, exec.ret)

\* the slow path after the reply of the LLM has arrived
discover(looked, instruction, object_name, reply, drv, w) ==
  LET llm_response == Strip(reply)
      parts == SplitFields(llm_response)
      asked == Task(looked, <<PageContent(None), Invoke(Ret("str", reply))>>, None)
      stored ==
        IF Len(parts) >= 2 /\ Truthy(object_name)
          THEN add_locator(asked.repository, asked.file, asked.now,
                           page_name_of_agent, object_name.v,
                           parts[2], stored_type(parts),
                           stored_description(parts, instruction), w)
          ELSE Outcome(asked.repository, asked.file, asked.now, None, <<>>)
      after == [stored EXCEPT !.trace = asked.trace \o stored.trace]
  IN  IF stored.ret.t = "raise"
        THEN Task(after, <<>>, ErrorText(stored.ret.v))
        ELSE LET exec == execute_action(llm_response, drv)
             IN  Task(after, exec.trace, exec.ret)

\* a hit that asks the LLM all the same
fast_path_asking(looked, instruction, drv) ==
  LET exec == execute_action(cached_action(looked.ret.v, instruction), drv)
  IN  Task(looked, <<PageContent(None), Invoke(None)>> \o exec.trace, exec.ret)

\* the fast path: execute the cached action and return its result
fast_path(looked, instruction, drv) ==
  LET exec == execute_action(cached_action(looked.ret.v, instruction), drv)
  IN  Task(looked, exec.trace, exec.ret)

\* an exception of llm.invoke that leaves execute_task
oracle_failed_raised(looked, oracle) ==
  Task(looked, <<PageContent(None), Invoke(oracle)>>, oracle)

\* llm.invoke raises: the except clause returns the text of the error
oracle_failed(looked, oracle) ==
  Task(looked, <<PageContent(None), Invoke(oracle)>>, ErrorText(oracle.v))

\* a lookup whose result is not looked at
never_cached(looked) == FALSE

\* if cached_locator: the lookup has returned a record
is_cached(looked) == looked.ret.t = "dict"

execute_task(repo, f, t, instruction, object_name, snapshot_ok, oracle, drv, w) ==
  LET looked == IF Truthy(object_name)
                  THEN get_locator(repo, f, t, page_name_of_agent,
                                   object_name.v, w)
                  ELSE Outcome(repo, f, t, None, <<>>)
  IN
  IF looked.ret.t = "raise"
    THEN Task(looked, <<>>, looked.ret)
  ELSE IF is_cached(looked)
    THEN fast_path(looked, instruction, drv)
  ELSE IF ~snapshot_ok
    THEN Task(looked, <<PageContent(Raise("Error"))>>, ErrorText(DriverError))
  ELSE IF oracle.t = "raise"
    THEN oracle_failed(looked, oracle)
  ELSE discover(looked, instruction, object_name, oracle.v, drv, w)

(***************************************************************************)
(* DirectLLMAutomationAgent.analyze_page_and_execute of test_new.py: no    *)
(* repository; its except clause logs the exception and raises it again.   *)
(***************************************************************************)
analyze_page_and_execute(instruction, snapshot_ok, oracle, drv) ==
  IF ~snapshot_ok
    THEN Exec(Raise("Error"), <<PageContent(Raise("Error"))>>)
  ELSE IF oracle.t = "raise"
    THEN Exec(oracle, <<PageContent(None), Invoke(oracle)>>)
  ELSE LET exec == execute_action_new(oracle.v, drv)
       IN  Exec(exec.ret,
                <<PageContent(None), Invoke(Ret("str", oracle.v))>> \o exec.trace)

(***************************************************************************)
(* Inputs of the calls.                                                    *)
(***************************************************************************)
\* "Fill 'ab'" and "Click"
InstrFill == <<"F", "i", "l", "l", " ", "'", "a", "b", "'">>
InstrClick == <<"C", "l", "i", "c", "k">>

\* the (instruction, object_name) pairs execute_task is called with: the
\* tasks of main(), and tasks with no object name
Tasks ==
  { <<InstrFill, Ret("str", UsernameField)>>,
    <<InstrClick, Ret("str", LoginButton)>>,
    <<InstrFill, None>>,
    <<InstrClick, Ret("str", <<>>)>> }

Sep == <<" ", "|", " ">>
\* "fill | #u | ab | Fill u"
ReplyFill == Concat(<<fill, Sep, SelUser, Sep, <<"a", "b">>, Sep, DescUser>>)
\* " CLICK|#b\n"
ReplyClick == Concat(<<<<" ">>, <<"C", "L", "I", "C", "K">>, <<"|">>, SelBtn, <<"\n">>>>)
\* "tap | #b |  | "
ReplyTap == Concat(<<tap, Sep, SelBtn, Sep, Sep>>)
\* "ok"
ReplyProse == <<"o", "k">>

NoReply == Raise("ConnectionError")
OracleOutcomes ==
  {NoReply} \cup {Ret("str", r) : r \in {ReplyFill, ReplyClick, ReplyTap, ReplyProse}}

Working == [fails |-> FALSE, visible |-> TRUE]
Broken == [fails |-> TRUE, visible |-> FALSE]
DriverOutcomes == {Working, Broken}

\* what the page and the LLM do during one execute_task.  Combinations that
\* differ only in an answer the call never asks for are left out: no reply
\* without a page snapshot, no action on the page without a reply.
Environments ==
  {e \in [snapshot_ok : BOOLEAN, oracle : OracleOutcomes, drv : DriverOutcomes] :
     /\ ~e.snapshot_ok => e.oracle = NoReply
     /\ e.oracle = NoReply => e.drv = Broken}

SearchTerms == {<<"U", "S">>, <<"b", "t", "n">>, <<"U">>}

\* records a file of an earlier run can hold
OldRecord ==
  [locator |-> SelUser, type |-> fill, description |-> DescUser,
   discovered_at |-> 0, used_count |-> 2, last_used_at |-> 0]
BareRecord == [locator |-> SelBtn, type |-> click, discovered_at |-> 0]

\* the states the repository file is in when a run starts, if only runs of
\* the program have written it: no file, a file a failed write has left
\* truncated, or a mapping of pages to objects
InitFiles ==
  { [state |-> "absent"],
    [state |-> "garbage"],
    JsonDump(Dict(EmptyDict)),
    JsonDump(Dict(<<<<CartPage, EmptyDict>>>>)),
    JsonDump(Dict(<<<<LoginPage, <<<<UsernameField, OldRecord>>>>>>>>)),
    JsonDump(Dict(<<<<LoginPage, <<<<LoginButton, BareRecord>>,
                                   <<UsernameField, OldRecord>>>>>>>>)) }

\* files that parse but hold no mapping: "[]" and "0"
ForeignFiles == {JsonDump(JsonArray), JsonDump(JsonNumber)}

(***************************************************************************)
(* What a call leaves in the history of the run.                           *)
(***************************************************************************)
NoHistory == [k \in Pages \X ObjectNames |-> [put |-> <<>>, gets |-> -1]]

RECURSIVE Observe(_, _)
Observe(h, trace) ==
  IF trace = <<>> THEN h
  ELSE
    LET e == Head(trace)
        k == <<e.args.page, e.args.object>>
    IN
    CASE e.ev = "add_locator" /\ e.ret.t = "bool" ->
           Observe([h EXCEPT ![k] = [put |-> <<e.args>>,
                                     gets |-> IF e.ret.v THEN 0 ELSE @.gets]],
                   Tail(trace))
      [] e.ev = "get_locator" /\ e.ret.t = "dict" ->
           Observe([h EXCEPT ![k].gets = IF @ >= 0 THEN @ + 1 ELSE @],
                   Tail(trace))
      [] OTHER -> Observe(h, Tail(trace))

Events(trace, ev) == {i \in DOMAIN trace : trace[i].ev = ev}

\* whether a write is still missing on disk after the calls of the trace
Pending(before, trace) ==
  LET saves == Events(trace, "save") IN
  IF saves = {} THEN before
  ELSE LET last == CHOOSE i \in saves : \A j \in saves : j <= i
       IN  trace[last].args.outcome # "ok"

(***************************************************************************)
(* The state machine: a run constructs the repository from the file and    *)
(* then calls the repository and the agent in any order.                   *)
(***************************************************************************)
Call(op, args, r) ==
  [op |-> op, args |-> args, ret |-> r.ret, trace |-> r.trace,
   unsaved |-> unsaved]

\* the outcomes to draw for the write of a call: one if it makes no write
Writes(r) == IF Events(r.trace, "save") = {} THEN {"ok"} ELSE WriteOutcomes

\* what a call leaves behind
Effect(r) ==
  /\ calls' = calls + 1
  /\ repository' = r.repository
  /\ file' = r.file
  /\ now' = r.now
  /\ history' = Observe(history, r.trace)
  /\ unsaved' = Pending(unsaved, r.trace)

Apply(r) ==
  /\ calls < MaxCalls
  /\ Effect(r)
  /\ UNCHANGED run

\* main() is not running: the repository and the agent are called directly
NoRun == [main |-> "none", pc |-> "none", i |-> 0, results |-> <<>>,
          exception |-> None, cleanup |-> <<>>]

Loaded(f) ==
  /\ run = NoRun
  /\ file = f
  /\ repository = load_repository(f)
  /\ now = 1
  /\ calls = 0
  /\ history = NoHistory
  /\ unsaved = FALSE
  /\ lastOp = [op |-> "load", args |-> [file |-> f], ret |-> None,
               trace |-> <<>>, unsaved |-> FALSE]

Init == \E f \in InitFiles : Loaded(f)

\* LocatorRepository(...) of a later run on the file as it is now
Construct ==
  /\ calls < MaxCalls
  /\ calls' = calls + 1
  /\ repository' = load_repository(file)
  /\ UNCHANGED <<file, now, run>>
  /\ history' = NoHistory
  /\ unsaved' = FALSE
  /\ lastOp' = [op |-> "load", args |-> [file |-> file], ret |-> None,
                trace |-> <<>>, unsaved |-> unsaved]

Put ==
  \E page_name \in Pages, object_name \in Objects, a \in PutArgs,
     w \in WriteOutcomes :
    LET r == add_locator(repository, file, now, page_name, object_name,
                         a[1], a[2], a[3], w)
    IN  /\ calls < MaxCalls
        /\ w \in Writes(r)
        /\ Apply(r)
        /\ lastOp' = Call("put",
                          [page |-> page_name, object |-> object_name,
                           locator |-> a[1], type |-> a[2],
                           description |-> a[3]], r)

Get ==
  \E page_name \in Pages, object_name \in Objects, w \in WriteOutcomes :
    LET r == get_locator(repository, file, now, page_name, object_name, w)
    IN  /\ calls < MaxCalls
        /\ w \in Writes(r)
        /\ Apply(r)
        /\ lastOp' = Call("get", [page |-> page_name, object |-> object_name], r)

Search ==
  \E page_name \in Pages, search_term \in SearchTerms :
    LET r == Outcome(repository, file, now,
                     get_locator_by_search(repository, page_name, search_term),
                     <<>>)
    IN  /\ Apply(r)
        /\ lastOp' = Call("search", [page |-> page_name, term |-> search_term], r)

Resolve ==
  \E task \in Tasks, e \in Environments, w \in WriteOutcomes :
    LET r == execute_task(repository, file, now, task[1], task[2],
                          e.snapshot_ok, e.oracle, e.drv, w)
    IN  /\ calls < MaxCalls
        /\ w \in Writes(r)
        /\ Apply(r)
        /\ lastOp' = Call("resolve",
                          [page |-> page_name_of_agent,
                           object_name |-> task[2],
                           instruction |-> task[1]], r)

Next == Construct \/ Put \/ Get \/ Search \/ Resolve

Spec == Init /\ [][Next]_vars

\* runs that start on a file something else has written
InitForeign == \E f \in InitFiles \cup ForeignFiles : Loaded(f)

NextStore == Construct \/ Put \/ Get \/ Search

SpecLoad == InitForeign /\ [][NextStore]_vars

(***************************************************************************)
(* main(): the tasks one after the other, then the final check and the     *)
(* closing of the browser, the except clause and the finally clause.       *)
(* main() of test_new.py runs the same loop on the agent that has no       *)
(* repository.  LogManager writes only the log files and is left out.      *)
(***************************************************************************)
\* "Fill 'cd'" and "Verify"
InstrPassword == <<"F", "i", "l", "l", " ", "'", "c", "d", "'">>
InstrVerify == <<"V", "e", "r", "i", "f", "y">>

\* tasks whose final check names no object
tasks_check_unnamed ==
  << <<InstrFill, UsernameField>>, <<InstrPassword, PasswordField>>,
     <<InstrClick, LoginButton>>, <<InstrVerify, <<>>>> >>

\* tasks of main(): (instruction, object name)
tasks ==
  << <<InstrFill, UsernameField>>, <<InstrPassword, PasswordField>>,
     <<InstrClick, LoginButton>>, <<InstrVerify, ProductsHeading>> >>

\* tasks of main() of test_new.py
tasks_new == <<InstrFill, InstrPassword, InstrClick, InstrVerify>>

\* what the LLM and the page do during one task of a run
RunEnvironments ==
  {e \in Environments :
     e.oracle \in {NoReply, Ret("str", ReplyFill), Ret("str", ReplyClick),
                   Ret("str", ReplyProse)}}

\* a loop that ends at the first result that reports an error
after_task_until_error(r, ret, n) ==
  IF ret.t = "raise" \/ ret.v[1] \in {"Exec error: ", "Action execution error: "}
    THEN [r EXCEPT !.pc = "except", !.exception = ret]
    ELSE [r EXCEPT !.results = Append(@, ret), !.i = @ + 1,
                   !.pc = IF r.i = n THEN "end" ELSE "tasks"]

\* the for loop after the await of task i of n returns or raises: result is
\* assigned and the loop goes on, or the exception leaves the try body
after_task(r, ret, n) ==
  IF ret.t = "raise"
    THEN [r EXCEPT !.pc = "except", !.exception = ret]
    ELSE [r EXCEPT !.results = Append(@, ret), !.i = @ + 1,
                   !.pc = IF r.i = n THEN "end" ELSE "tasks"]

\* browser.close() then playwright.stop(): both return, or one of them raises
CloseOutcomes == {"ok", "close_fails", "stop_fails"}

\* the calls made for one outcome, in order
Closing(c) ==
  CASE c = "ok" -> <<Event("browser.close", <<>>, None),
                     Event("playwright.stop", <<>>, None)>>
    [] c = "close_fails" -> <<Event("browser.close", <<>>, Raise("Error"))>>
    [] c = "stop_fails" -> <<Event("browser.close", <<>>, None),
                             Event("playwright.stop", <<>>, Raise("Error"))>>

Started(main, f) ==
  /\ file = f
  /\ repository = load_repository(f)
  /\ now = 1
  /\ calls = 0
  /\ history = NoHistory
  /\ unsaved = FALSE
  /\ lastOp = [op |-> "load", args |-> [file |-> f], ret |-> None,
               trace |-> <<>>, unsaved |-> FALSE]
  /\ run = [main |-> main, pc |-> "tasks", i |-> 1, results |-> <<>>,
            exception |-> None, cleanup |-> <<>>]

InitRun == \E main \in {"main", "main_new"}, f \in InitFiles : Started(main, f)

\* one turn of the loop of main(): agent.execute_task on the next task
RunTask ==
  /\ run.main = "main"
  /\ run.pc = "tasks"
  /\ \E e \in RunEnvironments, w \in WriteOutcomes :
       LET task == tasks[run.i]
           r == execute_task(repository, file, now, task[1],
                             Ret("str", task[2]), e.snapshot_ok, e.oracle,
                             e.drv, w)
       IN  /\ w \in Writes(r)
           /\ Effect(r)
           /\ lastOp' = Call("resolve",
                             [page |-> page_name_of_agent,
                              object_name |-> Ret("str", task[2]),
                              instruction |-> task[1]], r)
           /\ run' = after_task(run, r.ret, Len(tasks))

\* one turn of the loop of main() of test_new.py
RunTaskNew ==
  /\ run.main = "main_new"
  /\ run.pc = "tasks"
  /\ \E e \in RunEnvironments :
       LET r == analyze_page_and_execute(tasks_new[run.i], e.snapshot_ok,
                                         e.oracle, e.drv)
       IN  /\ calls' = calls + 1
           /\ lastOp' = [op |-> "analyze",
                         args |-> [instruction |-> tasks_new[run.i]],
                         ret |-> r.ret, trace |-> r.trace, unsaved |-> unsaved]
           /\ run' = after_task(run, r.ret, Len(tasks_new))
           /\ UNCHANGED <<repository, file, now, history, unsaved>>

\* after the loop: the final check, whose exception is caught, then
\* browser.close() and playwright.stop()
RunEnd ==
  /\ run.pc = "end"
  /\ \E c \in CloseOutcomes :
       /\ run' = [run EXCEPT !.cleanup = @ \o Closing(c),
                             !.pc = IF c = "ok" THEN "finally" ELSE "except",
                             !.exception = IF c = "ok" THEN @ ELSE Raise("Error")]
       /\ lastOp' = [op |-> "end", args |-> [close |-> c], ret |-> None,
                     trace |-> <<>>, unsaved |-> unsaved]
  /\ UNCHANGED <<calls, repository, file, now, history, unsaved>>

\* a cleanup with no try around it: what it raises takes the place of the
\* exception main() is handling
handler_cleanup_unguarded(r, c) ==
  [r EXCEPT !.cleanup = @ \o Closing(c), !.pc = "finally",
            !.exception = IF c = "ok" THEN @ ELSE Raise("CloseError")]

\* try: browser.close(); playwright.stop()  except: pass
handler_cleanup(r, c) ==
  [r EXCEPT !.cleanup = @ \o Closing(c), !.pc = "finally"]

\* the except clause of main(): the error is logged, browser.close() and
\* playwright.stop() are tried and what they raise is dropped
RunExcept ==
  /\ run.pc = "except"
  /\ \E c \in CloseOutcomes :
       /\ run' = handler_cleanup(run, c)
       /\ lastOp' = [op |-> "except", args |-> [close |-> c], ret |-> None,
                     trace |-> <<>>, unsaved |-> unsaved]
  /\ UNCHANGED <<calls, repository, file, now, history, unsaved>>

\* the finally clause: logger.close()
RunFinally ==
  /\ run.pc = "finally"
  /\ run' = [run EXCEPT !.pc = "done"]
  /\ lastOp' = [op |-> "finally", args |-> <<>>, ret |-> None,
                trace |-> <<>>, unsaved |-> unsaved]
  /\ UNCHANGED <<calls, repository, file, now, history, unsaved>>

NextRun == RunTask \/ RunTaskNew \/ RunEnd \/ RunExcept \/ RunFinally

SpecRun == InitRun /\ [][NextRun]_vars

(***************************************************************************)
(* The end-to-end scenario: main() runs its four tasks on a page that can  *)
(* be read, with an LLM that answers every task with an action line, and   *)
(* then main() is run again on the file the first run has left.            *)
(***************************************************************************)
\* "verify | #h"
ReplyVerify == Concat(<<verify, Sep, <<"#", "h">>>>)

\* the reply of the LLM to task i
replies == <<ReplyFill, ReplyFill, ReplyClick, ReplyVerify>>

\* the files of a repository that holds nothing
EmptyFiles ==
  {[state |-> "absent"], [state |-> "garbage"], JsonDump(Dict(EmptyDict))}

\* the run of main() that is under way: round tells which of the two it
\* is, start holds the keys LocatorRepository() has loaded, asked counts
\* the calls of llm.invoke of the round
Round(round, repo) ==
  [main |-> "main", pc |-> "tasks", i |-> 1, results |-> <<>>,
   exception |-> None, cleanup |-> <<>>, round |-> round,
   start |-> StoreKeys(repo), asked |-> 0]

InitScenario ==
  \E f \in EmptyFiles :
    /\ file = f
    /\ repository = load_repository(f)
    /\ now = 1
    /\ calls = 0
    /\ history = NoHistory
    /\ unsaved = FALSE
    /\ lastOp = [op |-> "load", args |-> [file |-> f], ret |-> None,
                 trace |-> <<>>, unsaved |-> FALSE]
    /\ run = Round("first", load_repository(f))

\* one turn of the loop of main() in the scenario
ScenarioTask ==
  /\ run.pc = "tasks"
  /\ \E drv \in DriverOutcomes, w \in WriteOutcomes :
       LET task == tasks[run.i]
           r == execute_task(repository, file, now, task[1],
                             Ret("str", task[2]), TRUE,
                             Ret("str", replies[run.i]), drv, w)
       IN  /\ w \in Writes(r)
           /\ Effect(r)
           /\ lastOp' = Call("resolve",
                             [page |-> page_name_of_agent,
                              object_name |-> Ret("str", task[2]),
                              instruction |-> task[1]], r)
           /\ run' = [after_task(run, r.ret, Len(tasks))
                        EXCEPT !.asked = @ + Cardinality(Events(r.trace, "llm.invoke"))]

\* the first main() returns and main() is started again: LocatorRepository()
\* loads the file as it is now
ScenarioAgain ==
  /\ run.pc = "end"
  /\ run.round = "first"
  /\ repository' = load_repository(file)
  /\ run' = Round("again", load_repository(file))
  /\ history' = NoHistory
  /\ unsaved' = FALSE
  /\ lastOp' = [op |-> "load", args |-> [file |-> file], ret |-> None,
                trace |-> <<>>, unsaved |-> FALSE]
  /\ UNCHANGED <<calls, file, now>>

NextScenario == ScenarioTask \/ ScenarioAgain

SpecScenario == InitScenario /\ [][NextScenario]_vars

(***************************************************************************)
(* _execute_action on action lines of every shape, and execute_task on an  *)
(* object that is in the repository with instructions of every shape.      *)
(***************************************************************************)
\* texts of the i-th field of a line: with and without blanks around them
FieldTexts(i) ==
  CASE i = 1 -> {fill, <<" ", "C", "L", "I", "C", "K">>, wait_for, clear,
                 verify, check_visible, tap, <<>>}
    [] i = 2 -> {SelUser, <<" ", "#", "b", "\n">>}
    [] i = 3 -> {<<>>, <<"a", "b">>, <<" ", "x", " ">>}
    [] i = 4 -> {<<>>, <<" ", "d">>}
    [] OTHER -> {<<"z">>}

\* the lines of exactly n fields
RECURSIVE LinesOf(_)
LinesOf(n) ==
  IF n = 1 THEN FieldTexts(1)
  ELSE {Concat(<<l, <<"|">>, f>>) : l \in LinesOf(n - 1), f \in FieldTexts(n)}

\* "fill | #a | x | d", "click | #b" and "ok"
LineFill == Concat(<<fill, Sep, <<"#", "a">>, Sep, <<"x">>, Sep, <<"d">>>>)
LineClick == Concat(<<click, Sep, <<"#", "b">>>>)

ActionLines ==
  {LineFill, LineClick, ReplyProse} \cup UNION {LinesOf(n) : n \in 1..MaxFields}

\* a page that answers and shows nothing
Hidden == [fails |-> FALSE, visible |-> FALSE]
ActionDrivers == {Working, Hidden, Broken}

\* instructions: "Fill 'ab'", "Click", "Fill 'a|b'", "Fill ' ab '", "it's",
\* "'a' 'b'" and "Fill ''"
InstrPipe == <<"F", "i", "l", "l", " ", "'", "a", "|", "b", "'">>
InstrBlanks == <<"F", "i", "l", "l", " ", "'", " ", "a", "b", " ", "'">>
InstrOneQuote == <<"i", "t", "'", "s">>
InstrTwoGroups == <<"'", "a", "'", " ", "'", "b", "'">>
InstrEmptyQuotes == <<"F", "i", "l", "l", " ", "'", "'">>
Instructions ==
  {InstrFill, InstrClick, InstrPipe, InstrBlanks, InstrOneQuote,
   InstrTwoGroups, InstrEmptyQuotes}

\* records of the object the task names, as add_locator has written them
CachedRecords ==
  {[locator |-> SelUser, type |-> ty, description |-> d, discovered_at |-> 0,
    used_count |-> 0] : ty \in {fill, click, clear}, d \in {DescUser, <<>>}}

\* the records execute_task stores for the object when it does not find it
\* and the LLM answers with one of the replies
ResolvedRecords ==
  {Record(execute_task(Dict(EmptyDict), [state |-> "absent"], 1, InstrClick,
                       Ret("str", UsernameField), TRUE, Ret("str", reply),
                       Working, "ok").repository,
          <<LoginPage, UsernameField>>) :
     reply \in {ReplyFill, ReplyClick, ReplyTap, ReplyVerify}}

\* the call that is about to be made
Input(args) ==
  [op |-> "input", args |-> args, ret |-> None, trace |-> <<>>,
   unsaved |-> FALSE]

InitAction ==
  /\ calls = 0
  /\ now = 1
  /\ history = NoHistory
  /\ unsaved = FALSE
  /\ run = NoRun
  /\ \/ /\ repository = Dict(EmptyDict)
        /\ file = [state |-> "absent"]
        /\ \E l \in ActionLines, drv \in ActionDrivers :
             lastOp = Input([action_str |-> l, drv |-> drv])
     \/ \E rec \in CachedRecords \cup ResolvedRecords, ins \in Instructions,
           drv \in ActionDrivers :
          /\ repository = Dict(<<<<LoginPage, <<<<UsernameField, rec>>>>>>>>)
          /\ file = JsonDump(repository)
          /\ lastOp = Input([instruction |-> ins, drv |-> drv])

\* the fields of the line as _execute_action reads them, if it has two
Fields(action_str) ==
  IF Len(SplitFields(action_str)) < 2 THEN <<>>
  ELSE <<action_fields(SplitFields(action_str))>>

\* _execute_action of the agent that has the repository
Execute ==
  /\ lastOp.op = "input"
  /\ "action_str" \in DOMAIN lastOp.args
  /\ LET r == execute_action(lastOp.args.action_str, lastOp.args.drv)
     IN  lastOp' = [op |-> "execute", args |-> lastOp.args, ret |-> r.ret,
                    trace |-> r.trace, unsaved |-> FALSE,
                    fields |-> Fields(lastOp.args.action_str)]
  /\ calls' = calls + 1
  /\ UNCHANGED <<repository, file, now, history, unsaved, run>>

\* _execute_action of test_new.py
ExecuteNew ==
  /\ lastOp.op = "input"
  /\ "action_str" \in DOMAIN lastOp.args
  /\ LET r == execute_action_new(lastOp.args.action_str, lastOp.args.drv)
     IN  lastOp' = [op |-> "execute_new", args |-> lastOp.args, ret |-> r.ret,
                    trace |-> r.trace, unsaved |-> FALSE,
                    fields |-> Fields(lastOp.args.action_str)]
  /\ calls' = calls + 1
  /\ UNCHANGED <<repository, file, now, history, unsaved, run>>

\* execute_task on the object that is in the repository
ResolveCached ==
  /\ lastOp.op = "input"
  /\ "instruction" \in DOMAIN lastOp.args
  /\ \E w \in WriteOutcomes :
       LET r == execute_task(repository, file, now, lastOp.args.instruction,
                             Ret("str", UsernameField), FALSE, NoReply,
                             lastOp.args.drv, w)
       IN  /\ Effect(r)
           /\ lastOp' = Call("resolve",
                             [page |-> page_name_of_agent,
                              object_name |-> Ret("str", UsernameField),
                              instruction |-> lastOp.args.instruction,
                              drv |-> lastOp.args.drv], r)
  /\ UNCHANGED run

NextAction == Execute \/ ExecuteNew \/ ResolveCached

SpecAction == InitAction /\ [][NextAction]_vars

(***************************************************************************)
(* Properties.                                                             *)
(***************************************************************************)
\* the key an add_locator or get_locator event is about
KeyOf(e) == <<e.args.page, e.args.object>>

Puts(trace) == {i \in Events(trace, "add_locator") : trace[i].ret.t = "bool"}
Hits(trace) == {i \in Events(trace, "get_locator") : trace[i].ret.t = "dict"}
Asked(trace) == Cardinality(Events(trace, "llm.invoke"))

\* the task of this step finds its object in the repository
IsHit(op) ==
  /\ Truthy(op.args.object_name)
  /\ <<op.args.page, op.args.object_name.v>> \in StoreKeys(repository)

\* C1 as stated: a task whose (page, object) is in the repository makes no
\* call to the LLM, and every other task makes exactly one.
C1_OneCallPerMiss ==
  [][lastOp'.op = "resolve" =>
       IF IsHit(lastOp') THEN Asked(lastOp'.trace) = 0
                         ELSE Asked(lastOp'.trace) = 1]_vars

\* C1 amended: a task whose (page, object) is in the repository makes no call
\* to the LLM, whether the action it executes succeeds or fails; every other
\* task makes exactly one call if it reads the url and the content of the
\* page without an exception, and none otherwise.
C1_CacheFirst ==
  [][lastOp'.op = "resolve" =>
       LET t == lastOp'.trace
           snapshots == {i \in Events(t, "page.content") : t[i].ret.t = "None"}
       IN  IF IsHit(lastOp') THEN Asked(t) = 0
                             ELSE Asked(t) = Cardinality(snapshots)]_vars

\* a hit whose action failed on the page, with no call to the LLM
C1_Witness ==
  /\ lastOp.op = "resolve"
  /\ Hits(lastOp.trace) # {}
  /\ lastOp.ret.v[1] = "Exec error: "
  /\ Asked(lastOp.trace) = 0

\* C2: a get_locator that finds its key returns the locator, type and
\* description of the last add_locator on that key, and a used_count one
\* higher than before: n for the n-th hit on a key the run has created.
C2_GetAfterPut ==
  [][\A i \in Hits(lastOp'.trace) :
       LET e == lastOp'.trace[i]
           h == history'[KeyOf(e)]
       IN  /\ KeyOf(e) \in StoreKeys(repository)
           /\ e.ret.v.used_count = UsedCount(Record(repository, KeyOf(e))) + 1
           /\ h.gets >= 0 => e.ret.v.used_count = h.gets
           /\ h.put # <<>> =>
                /\ e.ret.v.locator = h.put[1].locator
                /\ e.ret.v.type = h.put[1].type
                /\ e.ret.v.description = h.put[1].description]_vars

\* the first get_locator on a key that an add_locator of this run created
C2_Witness ==
  /\ lastOp.op = "get"
  /\ lastOp.ret.t = "dict"
  /\ history[<<lastOp.args.page, lastOp.args.object>>].gets = 1
  /\ lastOp.ret.v.used_count = 1

\* C3: add_locator on a key that exists replaces locator, type, description
\* and discovered_at and keeps the used_count; on a new key it writes the
\* record with used_count 0.
C3_PutKeepsCount ==
  [][\A i \in Puts(lastOp'.trace) :
       LET e == lastOp'.trace[i]
           k == KeyOf(e)
           new == Record(repository', k)
       IN  /\ k \in StoreKeys(repository')
           /\ new.locator = e.args.locator
           /\ new.type = e.args.type
           /\ new.description = e.args.description
           /\ new.discovered_at = now
           /\ new.used_count = IF k \in StoreKeys(repository)
                                 THEN UsedCount(Record(repository, k))
                                 ELSE 0]_vars

\* a used record overwritten with another locator
C3_Witness ==
  /\ lastOp.op = "put"
  /\ lastOp.ret = Ret("bool", FALSE)
  /\ lastOp.args.locator = SelBtn
  /\ Record(repository, <<lastOp.args.page, lastOp.args.object>>).used_count = 2
  /\ Record(repository, <<lastOp.args.page, lastOp.args.object>>).discovered_at > 0

C5_MissHasNoEffect ==
  [][(/\ lastOp'.op = "get"
      /\ <<lastOp'.args.page, lastOp'.args.object>> \notin StoreKeys(repository))
       => /\ lastOp'.ret.t = "None"
          /\ repository' = repository
          /\ file' = file
          /\ Events(lastOp'.trace, "save") = {}]_vars

\* a miss on a page that has another object
C5_Witness ==
  /\ lastOp.op = "get"
  /\ lastOp.ret.t = "None"
  /\ Has(repository.items, lastOp.args.page)
  /\ Lookup(repository.items, lastOp.args.page) # EmptyDict

\* C6: within a run, the used_count of a record never goes down; it changes
\* only in a step whose get_locator finds that key, and then by one; no
\* add_locator changes it.
C6_CountOnlyGrowsByGet ==
  [][lastOp'.op # "load" =>
       \A k \in StoreKeys(repository) \cap StoreKeys(repository') :
         LET old == UsedCount(Record(repository, k))
             new == UsedCount(Record(repository', k))
             t == lastOp'.trace
         IN  /\ new >= old
             /\ new # old => /\ new = old + 1
                             /\ \E i \in Hits(t) : KeyOf(t[i]) = k
             /\ (\E i \in Puts(t) : KeyOf(t[i]) = k) => new = old]_vars

\* a task that hit the repository and raised the count of a used record
C6_Witness ==
  /\ lastOp.op = "resolve"
  /\ \E i \in Hits(lastOp.trace) :
       /\ lastOp.trace[i].ret.v.used_count = 3
       /\ Record(repository, KeyOf(lastOp.trace[i])).used_count = 3

\* C7: within a run, a key that is in the repository stays in it.
C7_NeverDeletes ==
  [][lastOp'.op # "load" => StoreKeys(repository) \subseteq StoreKeys(repository')]_vars

\* a new object added to a page that had two
C7_Witness ==
  /\ lastOp.op \in {"put", "resolve"}
  /\ \E i \in Puts(lastOp.trace) : lastOp.trace[i].ret.v
  /\ Cardinality(StoreKeys(repository)) = 3

\* C8: every get_locator that finds its key and every add_locator writes the
\* repository to the file before it returns; when the write succeeds the
\* file holds the repository as it is in memory after the call.
C8_WriteThrough ==
  LET t == lastOp.trace
      writers == Puts(t) \cup Hits(t)
  IN  /\ \A i \in writers : i + 1 \in Events(t, "save")
      /\ (/\ writers # {}
          /\ \A i \in Events(t, "save") : t[i].args.outcome = "ok")
           => file = JsonDump(repository)

\* a hit whose raised count is in the file
C8_Witness ==
  /\ lastOp.op = "get"
  /\ lastOp.ret.t = "dict"
  /\ lastOp.ret.v.used_count = 3
  /\ file.state = "json"
  /\ KeyOf(lastOp.trace[1]) \in StoreKeys(file.doc)
  /\ Record(file.doc, KeyOf(lastOp.trace[1])).used_count = 3

\* C9: a failed write changes neither what add_locator and get_locator
\* return nor the repository they leave, and raises nothing; a get_locator
\* after it reads the repository in memory; the next write that succeeds
\* puts the whole repository in the file.
C9_FailedWriteSwallowed ==
  [][LET k == <<lastOp'.args.page, lastOp'.args.object>>
         a == lastOp'.args
         p == add_locator(repository, file, now, a.page, a.object,
                          a.locator, a.type, a.description, "ok")
         g == get_locator(repository, file, now, a.page, a.object, "ok")
         saves == Events(lastOp'.trace, "save")
     IN  /\ lastOp'.op = "put" =>
              /\ lastOp'.ret.t # "raise"
              /\ lastOp'.ret = p.ret
              /\ repository' = p.repository
         /\ lastOp'.op = "get" =>
              /\ lastOp'.ret.t # "raise"
              /\ lastOp'.ret = g.ret
              /\ repository' = g.repository
              /\ k \in StoreKeys(repository) =>
                   /\ lastOp'.ret.t = "dict"
                   /\ lastOp'.ret.v.locator = Record(repository, k).locator
         /\ (/\ unsaved
             /\ saves # {}
             /\ \A i \in saves : lastOp'.trace[i].args.outcome = "ok")
              => file' = JsonDump(repository')]_vars

\* a get_locator after a failed write: it finds the record the failed write
\* did not put in the file, and its own write puts it there
C9_Witness ==
  /\ lastOp.op = "get"
  /\ lastOp.unsaved
  /\ ~unsaved
  /\ lastOp.ret.t = "dict"
  /\ lastOp.ret.v.discovered_at = 1
  /\ file = JsonDump(repository)

\* C10 as stated: loading never raises; it yields the content of a file
\* that holds a mapping and the empty repository for every other file, and
\* on the empty repository get_locator and add_locator raise nothing.
C10_LoadAlwaysUsable ==
  /\ lastOp.op = "load" =>
       repository =
         IF lastOp.args.file.state = "json"
              /\ lastOp.args.file.doc.type = "dict"
           THEN lastOp.args.file.doc
           ELSE Dict(EmptyDict)
  /\ lastOp.ret.t # "raise"

\* the replies llm.invoke returned in the calls of a trace
Replies(trace) == {i \in Events(trace, "llm.invoke") : trace[i].ret.t = "str"}

\* an object name was given: neither None nor the empty string
Supplied(o) == o.t = "str" /\ o.v # <<>>

\* calls on the page that act on an element
Acted(trace) ==
  {i \in DOMAIN trace :
     trace[i].ev \in {"page.fill", "page.click", "page.wait_for_selector",
                      "page.is_visible"}}

\* C11: a task that names an object that is not in the repository, and for
\* which the LLM returns a reply of two fields or more, leaves a record under
\* (page, object) whose locator is the second field of the reply without the
\* blanks around it, whose type is the first field without blanks and in
\* lower case, and whose used_count is 0.
C11_MissStoresRecord ==
  [][lastOp'.op = "resolve" =>
       \A i \in Replies(lastOp'.trace) :
         LET raw == Split(lastOp'.trace[i].ret.v, "|")
             k == <<lastOp'.args.page, lastOp'.args.object_name.v>>
         IN  (Supplied(lastOp'.args.object_name) /\ Len(raw) >= 2) =>
               /\ k \notin StoreKeys(repository)
               /\ k \in StoreKeys(repository')
               /\ Record(repository', k).locator = Strip(raw[2])
               /\ Record(repository', k).type = Lower(Strip(raw[1]))
               /\ Record(repository', k).used_count = 0]_vars

\* the reply " CLICK|#b\n" stored as click on #b
C11_Witness ==
  /\ lastOp.op = "resolve"
  /\ \E i \in Replies(lastOp.trace) : lastOp.trace[i].ret.v = ReplyClick
  /\ <<LoginPage, LoginButton>> \in StoreKeys(repository)
  /\ Record(repository, <<LoginPage, LoginButton>>).type = click
  /\ Record(repository, <<LoginPage, LoginButton>>).locator = SelBtn
  /\ Record(repository, <<LoginPage, LoginButton>>).used_count = 0

\* C12: a task adds a key to the repository only if it names an object that
\* is not in the repository and the LLM returns a reply of two fields or
\* more, and then it adds that key only.  A task with no object name (None
\* or "") calls neither get_locator nor add_locator and leaves repository
\* and file as they are; a task that finds its object adds no key; a task
\* whose reply has fewer than two fields adds no key.
C12_OnlyMissAdds ==
  [][lastOp'.op = "resolve" =>
       LET t == lastOp'.trace
           o == lastOp'.args.object_name
           parseable == {i \in Replies(t) : Len(Split(t[i].ret.v, "|")) >= 2}
           added == StoreKeys(repository') \ StoreKeys(repository)
       IN  /\ ~Supplied(o) =>
                /\ Events(t, "get_locator") = {}
                /\ Events(t, "add_locator") = {}
                /\ repository' = repository
                /\ file' = file
           /\ (Supplied(o) /\ <<lastOp'.args.page, o.v>> \in StoreKeys(repository))
                => (added = {} /\ Events(t, "add_locator") = {})
           /\ parseable = {} => (added = {} /\ Events(t, "add_locator") = {})
           /\ added # {} =>
                /\ Supplied(o)
                /\ added = {<<lastOp'.args.page, o.v>>}
                /\ parseable # {}]_vars

\* a task with the empty object name whose action was found and executed,
\* and nothing stored
C12_Witness ==
  /\ lastOp.op = "resolve"
  /\ lastOp.args.object_name = Ret("str", <<>>)
  /\ Replies(lastOp.trace) # {}
  /\ lastOp.ret.v[1] = "Clicked "
  /\ Events(lastOp.trace, "add_locator") = {}

\* the step is a turn of the loop of main(): one task resolved and executed
LoopTurn == run.pc = "tasks" /\ lastOp'.op \in {"resolve", "analyze"}

\* the instruction of the i-th task of the main() that runs
Instruction(i) == IF run.main = "main" THEN tasks[i][1] ELSE tasks_new[i]

\* the loop has taken the result of the turn and gone on to the next task
GoesOn ==
  /\ run'.results = Append(run.results, lastOp'.ret)
  /\ run'.i = run.i + 1
  /\ run'.pc = IF run.i = Len(tasks) THEN "end" ELSE "tasks"

\* C13: the loop of main() takes the tasks in the order of the list and
\* keeps one result text for each; a task whose call on the page raises
\* yields an error text and the loop goes on with the next task; the loop of
\* the agent with the repository has run every task when it ends.
C13_LoopRunsAllTasks ==
  [][/\ LoopTurn =>
          /\ lastOp'.args.instruction = Instruction(Len(run.results) + 1)
          /\ (\E i \in Acted(lastOp'.trace) : lastOp'.trace[i].ret.t = "raise") =>
                /\ lastOp'.ret.t = "str"
                /\ lastOp'.ret.v[1] \in {"Exec error: ", "Action execution error: "}
                /\ GoesOn
     /\ (run'.main = "main" /\ run'.pc # "tasks") =>
          /\ Len(run'.results) = Len(tasks)
          /\ \A j \in DOMAIN run'.results : run'.results[j].t = "str"]_vars

\* a run whose second task failed on the page and whose third task clicked
C13_Witness ==
  /\ run.main = "main"
  /\ run.pc = "done"
  /\ Len(run.results) = Len(tasks)
  /\ run.results[2].v[1] = "Exec error: "
  /\ run.results[3].v[1] = "Clicked "

\* llm.invoke has raised in the calls of the trace
OracleRaised(trace) ==
  \E i \in Events(trace, "llm.invoke") : trace[i].ret.t = "raise"

\* C14 as stated: when llm.invoke raises during a task, the exception leaves
\* the agent and reaches the except clause of main(), and the task yields no
\* result.
C14_OracleFailureIsFatal ==
  [][(LoopTurn /\ OracleRaised(lastOp'.trace)) =>
       /\ lastOp'.ret.t = "raise"
       /\ run'.pc = "except"
       /\ run'.results = run.results]_vars

\* C14 amended: when llm.invoke raises during a task, execute_task of the
\* agent with the repository catches the exception and returns the text
\* "Error: <cause>", and the loop goes on with the next task;
\* analyze_page_and_execute of the agent without repository raises it again,
\* main() goes to its except clause and runs no further task.  The except
\* clause tries browser.close() and is followed by the finally clause.
C14_OracleFailureByAgent ==
  [][/\ (LoopTurn /\ OracleRaised(lastOp'.trace)) =>
          IF run.main = "main"
            THEN /\ lastOp'.ret.t = "str"
                 /\ lastOp'.ret.v = <<"Error: ", NoReply.v>>
                 /\ GoesOn
            ELSE /\ lastOp'.ret.t = "raise"
                 /\ run'.pc = "except"
                 /\ run'.results = run.results
     /\ run.pc = "except" =>
          /\ run'.pc = "finally"
          /\ run'.results = run.results
          /\ Len(run'.cleanup) > Len(run.cleanup)
          /\ run'.cleanup[Len(run.cleanup) + 1].ev = "browser.close"
     /\ run.pc = "finally" => (run'.pc = "done" /\ run'.results = run.results)]_vars

\* a run of the agent with the repository whose first task got no reply and
\* whose second task filled the field
C14_Witness ==
  /\ run.main = "main"
  /\ Len(run.results) = Len(tasks)
  /\ run.results[1].v = <<"Error: ", NoReply.v>>
  /\ run.results[2].v[1] = "Filled "

\* C17: a reply of fewer than two fields makes the task return a text that
\* reports the line; no element of the page is acted on, add_locator is not
\* called, repository and file stay as they are, and the loop goes on with
\* the next task.
C17_ShortReplyIsResult ==
  [][LoopTurn =>
       \A i \in Replies(lastOp'.trace) :
         Len(Split(lastOp'.trace[i].ret.v, "|")) < 2 =>
           /\ lastOp'.ret.t = "str"
           /\ lastOp'.ret.v =
                IF run.main = "main"
                  THEN <<"Invalid action: ", Strip(lastOp'.trace[i].ret.v)>>
                  ELSE <<"Error parsing action: ", lastOp'.trace[i].ret.v>>
           /\ Acted(lastOp'.trace) = {}
           /\ Events(lastOp'.trace, "add_locator") = {}
           /\ repository' = repository
           /\ file' = file
           /\ GoesOn]_vars

\* a run whose first reply was "ok" and whose second task filled the field
C17_Witness ==
  /\ run.main = "main"
  /\ Len(run.results) >= 2
  /\ run.results[1].v = <<"Invalid action: ", ReplyProse>>
  /\ run.results[2].v[1] = "Filled "
  /\ <<LoginPage, UsernameField>> \notin StoreKeys(repository)

\* the action types _execute_action of the agent with the repository knows
Recognized == {fill, click, wait_for, clear, verify}

\* the step has run _execute_action on a line of two fields or more
Executed(op) == op.op \in {"execute", "execute_new"} /\ op.fields # <<>>

\* C15: _execute_action never raises; when the call it makes on the page
\* raises, whatever the action type, it makes no other call and returns the
\* text "Exec error: <cause>".
C15_ExecutorContainsErrors ==
  lastOp.op = "execute" =>
    /\ lastOp.ret.t = "str"
    /\ (/\ lastOp.fields # <<>>
        /\ lastOp.fields[1].action_type \in Recognized
        /\ lastOp.args.drv.fails) =>
          /\ Len(lastOp.trace) = 1
          /\ Acted(lastOp.trace) = {1}
          /\ lastOp.trace[1].ret.t = "raise"
          /\ lastOp.ret.v = <<"Exec error: ", DriverError>>
    /\ (\E i \in Acted(lastOp.trace) : lastOp.trace[i].ret.t = "raise") =>
          lastOp.ret.v[1] = "Exec error: "

\* a wait_for whose wait_for_selector raised
C15_Witness ==
  /\ lastOp.op = "execute"
  /\ lastOp.fields # <<>>
  /\ lastOp.fields[1].action_type = wait_for
  /\ Events(lastOp.trace, "page.wait_for_selector") = {1}
  /\ lastOp.trace[1].ret.t = "raise"
  /\ lastOp.ret.v = <<"Exec error: ", DriverError>>

\* C16: the line is split on "|" and every field is stripped; the first
\* field in lower case is the action type, the second the selector, the
\* third the value and the fourth the description, "" when the line has no
\* third or fourth field; the calls on the page get these fields;
\* "fill | #a | x | d" gives (fill, #a, x, d) and "click | #b" gives
\* (click, #b, "", "").
C16_LineParsing ==
  lastOp.op \in {"execute", "execute_new"} =>
    LET raw == Split(lastOp.args.action_str, "|")
        f == lastOp.fields[1]
        t == lastOp.trace
    IN  /\ Len(raw) < 2 <=> lastOp.fields = <<>>
        /\ Len(raw) >= 2 =>
             /\ f.action_type = Lower(Strip(raw[1]))
             /\ f.selector = Strip(raw[2])
             /\ f.value = IF Len(raw) >= 3 THEN Strip(raw[3]) ELSE <<>>
             /\ f.description = IF Len(raw) >= 4 THEN Strip(raw[4]) ELSE <<>>
             /\ f.action_type = fill =>
                  t[1].args = [selector |-> f.selector, value |-> f.value]
             /\ f.action_type = click => t[1].args = [selector |-> f.selector]
        /\ lastOp.args.action_str = LineFill =>
             f = [action_type |-> fill, selector |-> <<"#", "a">>,
                  value |-> <<"x">>, description |-> <<"d">>]
        /\ lastOp.args.action_str = LineClick =>
             f = [action_type |-> click, selector |-> <<"#", "b">>,
                  value |-> <<>>, description |-> <<>>]

\* " CLICK|#u" and its like executed: a click on the selector
C16_Witness ==
  /\ lastOp.op = "execute"
  /\ lastOp.fields # <<>>
  /\ lastOp.args.action_str[1] = " "
  /\ lastOp.fields[1].action_type = click
  /\ Len(Split(lastOp.args.action_str, "|")) = 2
  /\ lastOp.fields[1].description = <<>>
  /\ lastOp.ret.v = <<"Clicked ", lastOp.fields[1].selector>>

\* C18: an action type that is not known is stored by add_locator as it is
\* given; a task that executes such a type, from the reply of the LLM or
\* from the repository, returns the text "Unknown action: <type>", acts on
\* no element of the page and raises nothing, and the record it stores on
\* the way has that type.
C18_UnknownKindPassesThrough ==
  [][/\ (lastOp'.op = "put" /\ lastOp'.ret.t = "bool") =>
          Record(repository', <<lastOp'.args.page, lastOp'.args.object>>).type
            = lastOp'.args.type
     /\ lastOp'.op = "resolve" =>
          LET t == lastOp'.trace
              replied == {Lower(Strip(Split(t[i].ret.v, "|")[1])) :
                            i \in {j \in Replies(t) :
                                     Len(Split(t[j].ret.v, "|")) >= 2}}
              cached == {Lower(t[i].ret.v.type) : i \in Hits(t)}
          IN  \A kind \in (replied \cup cached) \ Recognized :
                /\ lastOp'.ret.t = "str"
                /\ lastOp'.ret.v = <<"Unknown action: ", kind>>
                /\ Acted(t) = {}
                /\ \A i \in Puts(t) :
                     Record(repository', KeyOf(t[i])).type = kind]_vars

\* a task that found a record of type tap in the repository
C18_Witness ==
  /\ lastOp.op = "resolve"
  /\ Hits(lastOp.trace) # {}
  /\ lastOp.trace[1].ret.v.type = tap
  /\ lastOp.ret.v = <<"Unknown action: ", tap>>

\* C19 as stated: check_visible is executed as verify is: one call of
\* is_visible and a text that tells what it answered, nothing raised.
C19_VerifyIsCheckVisible ==
  (Executed(lastOp) /\ lastOp.fields[1].action_type \in {verify, check_visible})
    => /\ lastOp.ret.t = "str"
       /\ Len(lastOp.trace) = 1
       /\ Events(lastOp.trace, "page.is_visible") = {1}

\* C19 amended: verify is the visibility check of the agent with the
\* repository and check_visible that of the agent of test_new.py; each makes
\* one call of is_visible and returns a text that tells what it answered,
\* and raises nothing when the element is not visible; the other name is an
\* unknown action type for it: no call on the page, "Unknown action".
C19_VerifyByAgent ==
  (Executed(lastOp) /\ lastOp.fields[1].action_type \in {verify, check_visible})
    => LET mine == IF lastOp.op = "execute" THEN verify ELSE check_visible
           kind == lastOp.fields[1].action_type
           selector == lastOp.fields[1].selector
           drv == lastOp.args.drv
       IN  /\ lastOp.ret.t = "str"
           /\ kind = mine =>
                /\ Len(lastOp.trace) = 1
                /\ lastOp.trace[1].ev = "page.is_visible"
                /\ lastOp.trace[1].args = [selector |-> selector]
                /\ ~drv.fails =>
                     lastOp.ret.v =
                       IF lastOp.op = "execute"
                         THEN <<"", selector, ": ",
                                IF drv.visible THEN "visible" ELSE "NOT visible">>
                         ELSE <<"Element ", selector, " visible: ",
                                IF drv.visible THEN "True" ELSE "False">>
           /\ kind # mine =>
                /\ lastOp.trace = <<>>
                /\ lastOp.ret.v = <<"Unknown action: ", kind>>

\* check_visible given to the agent with the repository, on a page that
\* would have answered
C19_Witness ==
  /\ lastOp.op = "execute"
  /\ lastOp.fields # <<>>
  /\ lastOp.fields[1].action_type = check_visible
  /\ ~lastOp.args.drv.fails
  /\ lastOp.trace = <<>>
  /\ lastOp.ret.v = <<"Unknown action: ", check_visible>>

\* C20 as stated: a task that finds a record of type fill calls page.fill
\* with the text between the first two single quotes of the instruction, ""
\* when the instruction has no such text; a task that finds a record of
\* another type gives no value.
C20_FillValueFromQuotes ==
  (lastOp.op = "resolve" /\ Hits(lastOp.trace) # {}) =>
    LET t == lastOp.trace
        match == QuotedGroup(lastOp.args.instruction)
        fills == Events(t, "page.fill")
    IN  IF t[1].ret.v.type = fill
          THEN /\ fills # {}
               /\ \A i \in fills :
                    t[i].args.value = IF match = NoMatch THEN <<>> ELSE match[1]
          ELSE \A i \in fills : t[i].args.value = <<>>

\* the call _execute_action makes on the page for a recognized action type
DriverCall(f) ==
  CASE f.action_type = fill ->
         [ev |-> "page.fill", args |-> [selector |-> f.selector, value |-> f.value]]
    [] f.action_type = click ->
         [ev |-> "page.click", args |-> [selector |-> f.selector]]
    [] f.action_type = wait_for ->
         [ev |-> "page.wait_for_selector",
          args |-> [selector |-> f.selector, timeout |-> 5000]]
    [] f.action_type = clear ->
         [ev |-> "page.fill", args |-> [selector |-> f.selector, value |-> <<>>]]
    [] f.action_type = verify ->
         [ev |-> "page.is_visible", args |-> [selector |-> f.selector]]

\* C21 as the specification states it: every recognized action type makes
\* exactly one call on the page, and clear does what fill does on
\* (selector, ""): the same call, the same settle delay, the same result.
C21_ClearIsFill ==
  (/\ lastOp.op = "execute"
   /\ lastOp.fields # <<>>
   /\ lastOp.fields[1].action_type \in Recognized) =>
    /\ Acted(lastOp.trace) = {1}
    /\ lastOp.trace[1].ev = DriverCall(lastOp.fields[1]).ev
    /\ lastOp.trace[1].args = DriverCall(lastOp.fields[1]).args
    /\ lastOp.fields[1].action_type = clear =>
         LET filled == execute_action(
                         Concat(<<fill, <<"|">>, lastOp.fields[1].selector>>),
                         lastOp.args.drv)
         IN  /\ lastOp.trace = filled.trace
             /\ lastOp.ret = filled.ret

\* C21, amended: every recognized action type makes exactly one call on the
\* page: fill calls fill(selector, value), click calls click(selector),
\* wait_for calls wait_for_selector(selector) with a timeout of 5000 ms,
\* verify calls is_visible(selector), and clear calls fill(selector, "")
\* whatever the value of the line; unlike fill, clear has no settle delay
\* and returns the text "Cleared <selector>".
C21_ExecutorDispatch ==
  (/\ lastOp.op = "execute"
   /\ lastOp.fields # <<>>
   /\ lastOp.fields[1].action_type \in Recognized) =>
    /\ Acted(lastOp.trace) = {1}
    /\ lastOp.trace[1].ev = DriverCall(lastOp.fields[1]).ev
    /\ lastOp.trace[1].args = DriverCall(lastOp.fields[1]).args
    /\ (lastOp.fields[1].action_type = clear /\ ~lastOp.args.drv.fails) =>
         /\ Len(lastOp.trace) = 1
         /\ lastOp.ret.v = <<"Cleared ", lastOp.fields[1].selector>>
    /\ (lastOp.fields[1].action_type = fill /\ ~lastOp.args.drv.fails) =>
         /\ lastOp.trace = <<lastOp.trace[1], Sleep(500)>>
         /\ lastOp.ret.v = <<"Filled ", lastOp.fields[1].selector, " = '",
                             lastOp.fields[1].value, "'">>

\* a clear line that carries a value: the page is filled with "" and the
\* task returns at once with the text "Cleared #u"
C21_Witness ==
  /\ lastOp.op = "execute"
  /\ lastOp.fields # <<>>
  /\ lastOp.fields[1].action_type = clear
  /\ lastOp.fields[1].value = <<"a", "b">>
  /\ lastOp.trace = <<Event("page.fill", [selector |-> SelUser, value |-> <<>>], None)>>
  /\ lastOp.ret.v = <<"Cleared ", SelUser>>

\* the keys of the objects the tasks of main() name
TaskKeys == {<<page_name_of_agent, tasks[i][2]>> : i \in DOMAIN tasks} \ {<<page_name_of_agent, <<>>>>}

\* the tasks of the round that have run and whose object was not loaded
Missed == {j \in 1..(run.i - 1) : <<page_name_of_agent, tasks[j][2]>> \notin run.start}

\* C22 as the specification states it: the four tasks on an empty
\* repository make four calls of the LLM and leave exactly three new
\* records; run again on the repository they have filled, the fill and
\* click tasks make no call of the LLM.
C22_ThreeNewRecords ==
  /\ (run.round = "first" /\ run.pc = "end") =>
       /\ run.asked = 4
       /\ Cardinality(StoreKeys(repository)) = 3
  /\ (run.round = "again" /\ TaskKeys \subseteq run.start /\ run.i <= 4) =>
       run.asked = 0

\* C22, amended: the four tasks on an empty repository make four calls of
\* the LLM and leave exactly four new records, one for each task, the
\* final verify included; run again on a repository that holds these
\* records, no task makes a call of the LLM, and on any repository a task
\* of the second run calls the LLM only if its object was not loaded.
C22_Scenario ==
  /\ (run.round = "first" /\ run.pc = "end") =>
       /\ run.asked = 4
       /\ StoreKeys(repository) = TaskKeys
       /\ Cardinality(StoreKeys(repository)) = 4
  /\ run.round = "again" =>
       /\ run.asked = Cardinality(Missed)
       /\ TaskKeys \subseteq run.start => run.asked = 0

\* the second run has ended on the four records of the first and has not
\* called the LLM
C22_Witness ==
  /\ run.round = "again"
  /\ run.pc = "end"
  /\ run.start = TaskKeys
  /\ Cardinality(run.start) = 4
  /\ run.asked = 0
  /\ Len(run.results) = 4

\* whether the term is in the text, whatever the case of the letters
Within(term, text) == Contains(Lower(term), Lower(text))

\* whether the term is in the name or in the description of the i-th
\* object of the page
Found(objs, term, i) ==
  \/ Within(term, objs[i][1])
  \/ /\ "description" \in DOMAIN objs[i][2]
     /\ Within(term, objs[i][2].description)

\* C23: get_locator_by_search returns the first object of the page, in the
\* order the page holds them, whose name or description contains the term
\* whatever the case of the letters, and None when the repository has no
\* such page or no object matches; it changes no record and writes no file.
C23_SearchReadsFirstMatch ==
  [][lastOp'.op = "search" =>
       /\ repository' = repository
       /\ file' = file
       /\ unsaved' = unsaved
       /\ lastOp'.trace = <<>>
       /\ LET page == lastOp'.args.page
              term == lastOp'.args.term
          IN  IF page \notin Keys(repository.items)
                THEN lastOp'.ret = None
                ELSE LET objs == Lookup(repository.items, page) IN
                     \/ /\ lastOp'.ret = None
                        /\ \A i \in DOMAIN objs : ~Found(objs, term, i)
                     \/ /\ lastOp'.ret.t = "dict"
                        /\ \E i \in DOMAIN objs :
                             /\ Found(objs, term, i)
                             /\ \A j \in 1..(i - 1) : ~Found(objs, term, j)
                             /\ lastOp'.ret.v.object_name = objs[i][1]
                             /\ \A key \in DOMAIN objs[i][2] :
                                  lastOp'.ret.v[key] = objs[i][2][key]]_vars

\* a search for "U" on a page whose two objects both match, the first by
\* its description "Fill u" and the second by its name "User": the first
\* is returned and its used_count is as before
C23_Witness ==
  /\ lastOp.op = "search"
  /\ lastOp.args.term = <<"U">>
  /\ lastOp.ret.t = "dict"
  /\ lastOp.ret.v.object_name = LoginButton
  /\ LET objs == Lookup(repository.items, lastOp.args.page)
     IN  /\ Len(objs) = 2
         /\ objs[1][1] = LoginButton
         /\ objs[2][1] = UsernameField
         /\ Found(objs, <<"U">>, 1)
         /\ Found(objs, <<"U">>, 2)
         /\ UsedCount(objs[1][2]) = lastOp.ret.v.used_count

\* C24 as the specification states it: the description of the record a
\* task stores is the fourth field of the reply without the blanks around
\* it, and "" when the reply has fewer than four fields.
C24_DescriptionOrEmpty ==
  [][lastOp'.op = "resolve" =>
       \A i \in Replies(lastOp'.trace) :
         LET raw == Split(lastOp'.trace[i].ret.v, "|")
             k == <<lastOp'.args.page, lastOp'.args.object_name.v>>
         IN  (Supplied(lastOp'.args.object_name) /\ Len(raw) >= 2) =>
               Record(repository', k).description =
                 IF Len(raw) >= 4 THEN Strip(raw[4]) ELSE <<>>]_vars

\* C24, amended: the description of the record a task stores is the fourth
\* field of the reply without the blanks around it, and the instruction of
\* the task when the reply has fewer than four fields.
C24_DescriptionOrInstruction ==
  [][lastOp'.op = "resolve" =>
       \A i \in Replies(lastOp'.trace) :
         LET raw == Split(lastOp'.trace[i].ret.v, "|")
             k == <<lastOp'.args.page, lastOp'.args.object_name.v>>
         IN  (Supplied(lastOp'.args.object_name) /\ Len(raw) >= 2) =>
               Record(repository', k).description =
                 IF Len(raw) >= 4 THEN Strip(raw[4])
                                  ELSE lastOp'.args.instruction]_vars

\* the reply " CLICK|#b\n" of two fields to the task "Click": the record
\* of LoginButton is stored with the description "Click"
C24_Witness ==
  /\ lastOp.op = "resolve"
  /\ lastOp.args.instruction = InstrClick
  /\ \E i \in Replies(lastOp.trace) : lastOp.trace[i].ret.v = ReplyClick
  /\ Events(lastOp.trace, "add_locator") # {}
  /\ Record(repository, <<LoginPage, LoginButton>>).description = InstrClick

\* how many times browser.close() has been called
Closes == Cardinality(Events(run.cleanup, "browser.close"))

\* the calls of the cleanup that raised
FailedCleanup == {i \in DOMAIN run.cleanup : run.cleanup[i].ret.t = "raise"}

\* the guard of one of the steps of main() holds: the loop has a next
\* task, or the run is after the loop, in the except clause or in the
\* finally clause
HasNextStep ==
  \/ /\ run.pc = "tasks"
     /\ run.main \in {"main", "main_new"}
     /\ run.i \in DOMAIN tasks
  \/ run.pc \in {"end", "except", "finally"}

FromResolve(c) ==
  \E r \in ResolvedRecords :
    /\ r.locator = c.locator
    /\ r.type = c.type
    /\ r.description = c.description
    /\ r.discovered_at = c.discovered_at

\* C26: when a task finds a record that execute_task has stored, the line
\* rebuilt from the record and read again by _execute_action has the type
\* and the locator of the record: the LLM is not called, a record of a
\* recognized type makes the one call of its type on its locator, a record
\* of another type makes no call, and the instruction changes nothing but
\* the value page.fill gets.
C26_CachedRecordDecides ==
  (/\ lastOp.op = "resolve"
   /\ Hits(lastOp.trace) # {}
   /\ FromResolve(lastOp.trace[1].ret.v)) =>
    LET t == lastOp.trace
        c == t[1].ret.v
        call == DriverCall([action_type |-> c.type, selector |-> c.locator,
                            value |-> <<>>])
    IN  /\ Asked(t) = 0
        /\ IF c.type \in Recognized
             THEN /\ Cardinality(Acted(t)) = 1
                  /\ \A i \in Acted(t) :
                       /\ t[i].ev = call.ev
                       /\ t[i].args.selector = c.locator
                       /\ c.type # fill => t[i].args = call.args
             ELSE /\ Acted(t) = {}
                  /\ lastOp.ret.v = <<"Unknown action: ", c.type>>

\* the task "Fill 'a|b'" finds the record the reply "fill | #u | ab | Fill u"
\* has left: page.fill is called on #u, and only its value comes from the
\* instruction
C26_Witness ==
  /\ lastOp.op = "resolve"
  /\ lastOp.args.instruction = InstrPipe
  /\ Hits(lastOp.trace) = {1}
  /\ FromResolve(lastOp.trace[1].ret.v)
  /\ lastOp.trace[1].ret.v.type = fill
  /\ lastOp.trace[1].ret.v.discovered_at = 1
  /\ \E i \in Events(lastOp.trace, "page.fill") :
       /\ lastOp.trace[i].args.selector = SelUser
       /\ lastOp.trace[i].ret = None

\* C27: a task calls add_locator only for a key that is not in the
\* repository at that moment, and the call returns True; and the used_count
\* of every record the run has created is the number of lookups that have
\* found its key since, one for each task that found it.
C27_ResolveAddsOnlyNewKeys ==
  /\ [][lastOp'.op = "resolve" =>
          \A i \in Events(lastOp'.trace, "add_locator") :
            /\ KeyOf(lastOp'.trace[i]) \notin StoreKeys(repository)
            /\ lastOp'.trace[i].ret = Ret("bool", TRUE)
            /\ history'[KeyOf(lastOp'.trace[i])].gets = 0]_vars
  /\ [](\A k \in StoreKeys(repository) :
          history[k].gets >= 0 =>
            UsedCount(Record(repository, k)) = history[k].gets)

\* a task has stored the record of LoginButton from the reply " CLICK|#b\n"
\* and a later task has found it: one hit, used_count 1
C27_Witness ==
  /\ lastOp.op = "resolve"
  /\ Hits(lastOp.trace) = {1}
  /\ Events(lastOp.trace, "add_locator") = {}
  /\ KeyOf(lastOp.trace[1]) = <<LoginPage, LoginButton>>
  /\ history[<<LoginPage, LoginButton>>].gets = 1
  /\ history[<<LoginPage, LoginButton>>].put # <<>>
  /\ Record(repository, <<LoginPage, LoginButton>>).type = click
  /\ Record(repository, <<LoginPage, LoginButton>>).description = InstrClick
  /\ Record(repository, <<LoginPage, LoginButton>>).used_count = 1

\* the calls of a trace that change the repository or write its file
Stored(trace) ==
  Puts(trace) \cup Hits(trace) \cup Events(trace, "save")

\* C28: a task that does not find its object stores the record and writes
\* the file before it executes the action, whatever the action returns:
\* the record is in the repository also when the result is an "Exec error"
\* or an "Unknown action" text; a task that finds its object raises the
\* used_count and writes the file before it executes the action, does not
\* call the LLM, and acts on the locator of the record.
C28_StoreBeforeExecute ==
  [][lastOp'.op = "resolve" =>
       LET t == lastOp'.trace
           o == lastOp'.args.object_name
           k == <<lastOp'.args.page, o.v>>
       IN  /\ \A i \in Stored(t), j \in Acted(t) : i < j
           /\ \A i \in Puts(t) \cup Hits(t) :
                /\ i + 1 \in Events(t, "save")
                /\ KeyOf(t[i]) \in StoreKeys(repository')
           /\ \A i \in Replies(t) :
                (Supplied(o) /\ Len(Split(t[i].ret.v, "|")) >= 2) =>
                  /\ Puts(t) # {}
                  /\ k \in StoreKeys(repository')
           /\ (Supplied(o) /\ k \in StoreKeys(repository)) =>
                /\ Hits(t) = {1}
                /\ Asked(t) = 0
                /\ UsedCount(Record(repository', k)) =
                     UsedCount(Record(repository, k)) + 1
                /\ \A j \in Acted(t) :
                     t[j].args.selector = Record(repository, k).locator]_vars

\* the page raised on the click the reply " CLICK|#b\n" asked for: the task
\* returns "Exec error" and the record of LoginButton is in the repository
\* and in the file, stored before the click
C28_Witness ==
  /\ lastOp.op = "resolve"
  /\ lastOp.ret.v = <<"Exec error: ", DriverError>>
  /\ \E i \in Puts(lastOp.trace), j \in Events(lastOp.trace, "page.click") :
       /\ i < j
       /\ lastOp.trace[i + 1].ev = "save"
       /\ lastOp.trace[i + 1].args.outcome = "ok"
       /\ lastOp.trace[j].ret.t = "raise"
  /\ <<LoginPage, LoginButton>> \in StoreKeys(repository)
  /\ <<LoginPage, LoginButton>> \in StoreKeys(load_repository(file))

\* the fields of a record but for the two that count its uses
Discovery(rec) ==
  [key \in DOMAIN rec \ {"used_count", "last_used_at"} |-> rec[key]]

\* C29: a task changes nothing of a record that is in the repository but
\* its used_count and last_used_at: locator, type, description and
\* discovered_at stay as they are, and the task makes no add_locator on a
\* key that is in the repository.
C29_ResolveKeepsDiscovery ==
  [][lastOp'.op = "resolve" =>
       /\ \A k \in StoreKeys(repository) :
            /\ k \in StoreKeys(repository')
            /\ Discovery(Record(repository', k)) = Discovery(Record(repository, k))
       /\ \A i \in Events(lastOp'.trace, "add_locator") :
            KeyOf(lastOp'.trace[i]) \notin StoreKeys(repository)]_vars

\* a task has found the record of UsernameField of an earlier run: its
\* used_count has gone from 2 to 3 and its discovery is as it was loaded
C29_Witness ==
  /\ lastOp.op = "resolve"
  /\ Hits(lastOp.trace) = {1}
  /\ KeyOf(lastOp.trace[1]) = <<LoginPage, UsernameField>>
  /\ Record(repository, <<LoginPage, UsernameField>>).used_count = 3
  /\ Record(repository, <<LoginPage, UsernameField>>).last_used_at > 0
  /\ Discovery(Record(repository, <<LoginPage, UsernameField>>)) = Discovery(OldRecord)

\* C30 as stated: when the write of a call fails, at open() or part-way
\* through json.dump, the file is left as the last write that succeeded
\* has made it, so that a file that held a repository holds it still and
\* loads to the same repository.
C30_FailedWriteKeepsFile ==
  [][LET saves == Events(lastOp'.trace, "save") IN
     (/\ lastOp'.op # "load"
      /\ file.state = "json"
      /\ saves # {}
      /\ \A i \in saves : lastOp'.trace[i].args.outcome # "ok") =>
       /\ file' = file
       /\ load_repository(file') = load_repository(file)]_vars
====
